---- MODULE Spec2Model ----
(***************************************************************************)
(* A model of risp (src/src/main.rs): the driver's pipeline                *)
(*   read + normalise parentheses -> lex -> parse -> interp_node           *)
(* over character sequences, token vectors and Node trees.                 *)
(*                                                                         *)
(* A character is a one-character string; a text (the file's content, a    *)
(* Word's String) is a sequence of characters.  A Vec is a sequence whose  *)
(* last element is the one Vec::pop removes.  A panic (unwrap on None, an  *)
(* index out of bounds) is the outcome Panic.                              *)
(***************************************************************************)
EXTENDS Integers, Sequences, FiniteSets, TLC

VARIABLES pc, source, chars, tokens, lexed, program, result, round, tree1, result1

vars == <<pc, source, chars, tokens, lexed, program, result, round, tree1, result1>>

(***************************************************************************)
(* Bounds of the model.                                                    *)
(***************************************************************************)
\* longest enumerated source text, in characters
MaxLen == 4
\* longest enumerated token vector
MaxTokens == 6
\* deepest enumerated nest of (+ a b) forms
MaxDepth == 2

(***************************************************************************)
(* Characters.                                                             *)
(***************************************************************************)
DigitChars == <<"0", "1", "2", "3", "4", "5", "6", "7", "8", "9">>

\* char::is_numeric, on the characters of the model
is_numeric(ch) == \E i \in 1..Len(DigitChars) : DigitChars[i] = ch

\* char::is_whitespace, on the characters of the model
is_whitespace(ch) == ch \in {" ", "\n"}

DigitVal(ch) == (CHOOSE i \in 1..Len(DigitChars) : DigitChars[i] = ch) - 1

RECURSIVE Reverse(_)
Reverse(s) == IF s = <<>> THEN <<>> ELSE Append(Reverse(Tail(s)), Head(s))

Last(s) == s[Len(s)]
Front(s) == SubSeq(s, 1, Len(s) - 1)

(***************************************************************************)
(* enum Token, enum Node.                                                  *)
(***************************************************************************)
LParen == [t |-> "LParen", n |-> 0, w |-> <<>>]
RParen == [t |-> "RParen", n |-> 0, w |-> <<>>]
TNumber(n) == [t |-> "Number", n |-> n, w |-> <<>>]
TWord(w) == [t |-> "Word", n |-> 0, w |-> w]

Null == [tag |-> "Null", n |-> 0, w |-> <<>>, l |-> <<>>]
List(l) == [tag |-> "List", n |-> 0, w |-> <<>>, l |-> l]
Number(n) == [tag |-> "Number", n |-> n, w |-> <<>>, l |-> <<>>]
Word(w) == [tag |-> "Word", n |-> 0, w |-> w, l |-> <<>>]

\* the outcome of a call that panics instead of returning a Node
Panic == [tag |-> "Panic", n |-> 0, w |-> <<>>, l |-> <<>>]

Plus == <<"+">>

(***************************************************************************)
(* impl fmt::Display for Node                                              *)
(***************************************************************************)
RECURSIVE DisplayNat(_)
DisplayNat(n) ==
    IF n < 10 THEN <<DigitChars[n + 1]>>
    ELSE Append(DisplayNat(n \div 10), DigitChars[(n % 10) + 1])

DisplayI64(n) == IF n < 0 THEN <<"-">> \o DisplayNat(0 - n) ELSE DisplayNat(n)

RECURSIVE Display(_), DisplayElems(_, _)
\* the for loop of fmt: element i onwards, a space before all but the first
DisplayElems(list, i) ==
    IF i > Len(list) THEN <<>>
    ELSE (IF i > 1 THEN <<" ">> ELSE <<>>) \o Display(list[i]) \o DisplayElems(list, i + 1)

\* Display writing a Word as {:?} does, between double quotes
Display_quotedWord(node) ==
    CASE node.tag = "Null" -> <<"N", "u", "l", "l">>
      [] node.tag = "Number" -> DisplayI64(node.n)
      [] node.tag = "Word" -> <<"\"">> \o node.w \o <<"\"">>
      [] node.tag = "List" -> <<"(">> \o DisplayElems(node.l, 1) \o <<")">>

Display(node) ==
    CASE node.tag = "Null" -> <<"N", "u", "l", "l">>
      [] node.tag = "Number" -> DisplayI64(node.n)
      [] node.tag = "Word" -> node.w
      [] node.tag = "List" -> <<"(">> \o DisplayElems(node.l, 1) \o <<")">>

(***************************************************************************)
(* fn lex                                                                  *)
(***************************************************************************)
\* word.parse::<i64>() of a non-empty run of decimal digits; the runs of the
\* model are a few digits long, far from the 19 digits where parse fails
RECURSIVE ParseI64(_)
ParseI64(word) ==
    IF Len(word) = 1 THEN DigitVal(word[1])
    ELSE ParseI64(Front(word)) * 10 + DigitVal(Last(word))

\* the comment loop: while !chars.is_empty() && ch != '\n' { ch = pop }
RECURSIVE SkipComment(_, _)
SkipComment(cs, ch) ==
    IF cs # <<>> /\ ch # "\n" THEN SkipComment(Front(cs), Last(cs))
    ELSE [cs |-> cs, ch |-> ch]

\* the number loop: while ch.is_numeric() && !chars.is_empty() { push; pop }
RECURSIVE ScanNumber(_, _, _)
ScanNumber(cs, ch, word) ==
    IF is_numeric(ch) /\ cs # <<>> THEN ScanNumber(Front(cs), Last(cs), Append(word, ch))
    ELSE [cs |-> cs, ch |-> ch, word |-> word]

\* the word loop: while !ch.is_whitespace() && !chars.is_empty() { push; pop }
RECURSIVE ScanWord(_, _, _)
ScanWord(cs, ch, word) ==
    IF ~is_whitespace(ch) /\ cs # <<>> THEN ScanWord(Front(cs), Last(cs), Append(word, ch))
    ELSE [cs |-> cs, ch |-> ch, word |-> word]

\* the main loop of lex: cs is the reversed Vec, ch the character in hand
RECURSIVE LexLoop(_, _, _)
LexLoop(cs, ch, toks) ==
    IF cs = <<>> THEN toks
    ELSE CASE ch = "(" -> LexLoop(Front(cs), Last(cs), Append(toks, LParen))
           [] ch = ")" -> LexLoop(Front(cs), Last(cs), Append(toks, RParen))
           [] ch = ";" ->
                LET s == SkipComment(cs, ch) IN LexLoop(s.cs, s.ch, toks)
           [] ch \notin {"(", ")", ";"} /\ is_numeric(ch) ->
                LET s == ScanNumber(cs, ch, <<>>)
                IN  LexLoop(s.cs, s.ch, Append(toks, TNumber(ParseI64(s.word))))
           [] ch \notin {"(", ")", ";"} /\ ~is_numeric(ch) /\ ~is_whitespace(ch) ->
                LET s == ScanWord(cs, ch, <<>>)
                IN  LexLoop(s.cs, s.ch, Append(toks, TWord(s.word)))
           [] OTHER -> LexLoop(Front(cs), Last(cs), toks)

\* lex: ok = FALSE when chars.pop().unwrap() panics on the empty Vec;
\* otherwise the returned Vec, reversed so that pop yields source order
lex(cs) ==
    IF cs = <<>> THEN [ok |-> FALSE, tokens |-> <<>>]
    ELSE LET r == Reverse(cs)
         IN  [ok |-> TRUE, tokens |-> Reverse(LexLoop(Front(r), Last(r), <<>>))]

(***************************************************************************)
(* fn parse                                                                *)
(***************************************************************************)
RECURSIVE parse(_), ParseLoop(_, _), ParseLoop_keepClose(_, _), ParseLoop_skipClose(_, _)
\* ParseLoop returning at a close-marker without taking it off the Vec
ParseLoop_keepClose(toks, list) ==
    IF toks = <<>> THEN [node |-> List(list), rest |-> toks]
    ELSE LET token == Last(toks)
             t == Front(toks)
         IN  CASE token.t = "LParen" ->
                    LET r == parse(t) IN ParseLoop_keepClose(r.rest, Append(list, r.node))
               [] token.t = "RParen" -> [node |-> List(list), rest |-> toks]
               [] token.t = "Number" -> ParseLoop_keepClose(t, Append(list, Number(token.n)))
               [] token.t = "Word" -> ParseLoop_keepClose(t, Append(list, Word(token.w)))

\* ParseLoop going on after a close-marker (continue in place of break)
ParseLoop_skipClose(toks, list) ==
    IF toks = <<>> THEN [node |-> List(list), rest |-> toks]
    ELSE LET token == Last(toks)
             t == Front(toks)
         IN  CASE token.t = "LParen" ->
                    LET r == parse(t) IN ParseLoop_skipClose(r.rest, Append(list, r.node))
               [] token.t = "RParen" -> ParseLoop_skipClose(t, list)
               [] token.t = "Number" -> ParseLoop_skipClose(t, Append(list, Number(token.n)))
               [] token.t = "Word" -> ParseLoop_skipClose(t, Append(list, Word(token.w)))

\* the while loop of parse: toks is the Vec, list the Vec<Node> built so far
ParseLoop(toks, list) ==
    IF toks = <<>> THEN [node |-> List(list), rest |-> toks]
    ELSE LET token == Last(toks)
             t == Front(toks)
         IN  CASE token.t = "LParen" ->
                    LET r == parse(t) IN ParseLoop(r.rest, Append(list, r.node))
               [] token.t = "RParen" -> [node |-> List(list), rest |-> t]
               [] token.t = "Number" -> ParseLoop(t, Append(list, Number(token.n)))
               [] token.t = "Word" -> ParseLoop(t, Append(list, Word(token.w)))

\* parse: the Node returned and what is left of the Vec
parse(toks) == ParseLoop(toks, <<>>)

(***************************************************************************)
(* fn interp_node, interp_list, interp_binop, interp_word                  *)
(***************************************************************************)
RECURSIVE interp_node(_), interp_list(_), interp_binop(_), InterpSeq(_, _, _)
RECURSIVE InterpSeq_keepNull(_, _, _), InterpSeq_prepend(_, _, _)

interp_word(word) == Null

interp_node(node) ==
    CASE node.tag = "List" -> interp_list(node.l)
      [] node.tag = "Word" -> interp_word(node.w)
      [] OTHER -> node

\* InterpSeq without the `if result != Node::Null` filter
InterpSeq_keepNull(list, i, new_list) ==
    IF i > Len(list) THEN List(new_list)
    ELSE LET res == interp_node(list[i])
         IN  IF res = Panic THEN Panic
             ELSE InterpSeq_keepNull(list, i + 1, Append(new_list, res))

\* InterpSeq inserting each result at the front of new_list
InterpSeq_prepend(list, i, new_list) ==
    IF i > Len(list) THEN List(new_list)
    ELSE LET res == interp_node(list[i])
         IN  IF res = Panic THEN Panic
             ELSE IF res # Null THEN InterpSeq_prepend(list, i + 1, <<res>> \o new_list)
             ELSE InterpSeq_prepend(list, i + 1, new_list)

\* the for loop of interp_list: element i onwards, new_list built so far
InterpSeq(list, i, new_list) ==
    IF i > Len(list) THEN List(new_list)
    ELSE LET res == interp_node(list[i])
         IN  IF res = Panic THEN Panic
             ELSE IF res # Null THEN InterpSeq(list, i + 1, Append(new_list, res))
             ELSE InterpSeq(list, i + 1, new_list)

interp_list(list) ==
    IF Len(list) < 1 THEN Panic
    ELSE IF list[1].tag = "Word"
         THEN IF list[1].w = Plus THEN interp_binop(list) ELSE Null
         ELSE InterpSeq(list, 1, <<>>)

\* interp_binop reading list[1] for both operands
interp_binop_sameOperand(list) ==
    IF Len(list) < 2 THEN Panic
    ELSE LET left == interp_node(list[2])
         IN  IF left = Panic THEN Panic
             ELSE LET right == left
                  IN  IF list[1].tag = "Word" /\ list[1].w = Plus
                         /\ left.tag = "Number" /\ right.tag = "Number"
                      THEN Number(left.n + right.n)
                      ELSE Null

\* interp_binop checking the length and returning Null for a short list
interp_binop_lenient(list) ==
    IF Len(list) < 3 THEN Null
    ELSE LET left == interp_node(list[2])
             right == interp_node(list[3])
         IN  IF left = Panic \/ right = Panic THEN Panic
             ELSE IF list[1].tag = "Word" /\ list[1].w = Plus
                     /\ left.tag = "Number" /\ right.tag = "Number"
                  THEN Number(left.n + right.n)
                  ELSE Null

\* list[1] and list[2] are indexed in turn, each a panic when out of bounds;
\* the sums of the model stay far below 2^63, where l + r overflows
interp_binop(list) ==
    IF Len(list) < 2 THEN Panic
    ELSE LET left == interp_node(list[2])
         IN  IF left = Panic THEN Panic
             ELSE IF Len(list) < 3 THEN Panic
             ELSE LET right == interp_node(list[3])
                  IN  IF right = Panic THEN Panic
                      ELSE IF list[1].tag = "Word" /\ list[1].w = Plus
                              /\ left.tag = "Number" /\ right.tag = "Number"
                           THEN Number(left.n + right.n)
                           ELSE Null

(***************************************************************************)
(* fn main: the normalisation of the parentheses                           *)
(***************************************************************************)
RECURSIVE replace(_, _, _)
\* str::replace of the one-character pattern from by the text to
replace(s, from, to) ==
    IF s = <<>> THEN <<>>
    ELSE (IF Head(s) = from THEN to ELSE <<Head(s)>>) \o replace(Tail(s), from, to)

normalize(s) == replace(replace(s, "(", <<" ", "(", " ">>), ")", <<" ", ")", " ">>)

(***************************************************************************)
(* Inputs.                                                                 *)
(***************************************************************************)
\* the characters of the enumerated source texts
SrcChars == {"(", ")", ";", "\n", " ", "1", "+", "a"}

Texts(n) == UNION {[1..k -> SrcChars] : k \in 0..n}

\* the concrete scenarios of the documentation
SrcPlus12 == <<"(", "+", " ", "1", " ", "2", ")">>
SrcNested == <<"(", "+", " ", "(", "+", " ", "1", " ", "2", ")", " ", "3", ")">>
SrcFoo == <<"f", "o", "o">>
SrcFooLine == <<"f", "o", "o", "\n">>
SrcSiblings == SrcPlus12 \o <<" ">> \o <<"(", "+", " ", "3", " ", "4", ")">>
SrcComment == <<";", " ", "c", "o", "m", "m", "e", "n", "t", " ", "o", "n", "l", "y">>

Samples == {SrcPlus12, SrcNested, SrcFoo, SrcFooLine, SrcSiblings, SrcComment}

\* the integers at the leaves of the enumerated (+ a b) nests
Leaves == {1, 2, 3}

RECURSIVE PlusTrees(_)
PlusTrees(d) ==
    IF d = 0 THEN {Number(n) : n \in Leaves}
    ELSE LET sub == PlusTrees(d - 1)
         IN  sub \cup {List(<<Word(Plus), a, b>>) : a \in sub, b \in sub}

PlusForms == {t \in PlusTrees(MaxDepth) : t.tag = "List"}

PlusSources == {Display(t) : t \in PlusForms}

Sources == Texts(MaxLen) \cup Samples \cup PlusSources

\* the tokens of the enumerated token vectors
TokenKinds == {LParen, RParen, TNumber(12), TWord(Plus), TWord(<<"a">>)}

TokenVecs == UNION {[1..k -> TokenKinds] : k \in 0..MaxTokens}

(***************************************************************************)
(* The pipeline of main, one action per stage.                             *)
(***************************************************************************)
Init ==
    /\ pc = "start"
    /\ source \in Sources
    /\ chars = <<>>
    /\ tokens = <<>>
    /\ lexed = <<>>
    /\ program = Null
    /\ result = Null
    /\ round = 1
    /\ tree1 = Null
    /\ result1 = Null

\* main: read_to_string(..).replace("(", " ( ").replace(")", " ) ").chars().collect()
ReadSource ==
    /\ pc = "start"
    /\ chars' = normalize(source)
    /\ pc' = "read"
    /\ UNCHANGED <<source, tokens, lexed, program, result, round, tree1, result1>>

\* main: let mut tokens = lex(&mut chars)
Lex ==
    /\ pc = "read"
    /\ LET r == lex(chars)
       IN  IF r.ok
           THEN /\ tokens' = r.tokens
                /\ lexed' = r.tokens
                /\ pc' = "lexed"
                /\ result' = result
           ELSE /\ pc' = "aborted"
                /\ result' = Panic
                /\ UNCHANGED <<tokens, lexed>>
    /\ UNCHANGED <<source, chars, program, round, tree1, result1>>

\* main: let program = parse(&mut tokens)
Parse ==
    /\ pc = "lexed"
    /\ LET r == parse(tokens)
       IN  /\ program' = r.node
           /\ tokens' = r.rest
    /\ pc' = "parsed"
    /\ UNCHANGED <<source, chars, lexed, result, round, tree1, result1>>

\* main: interpret(&program), the process aborting when the evaluation panics
interpret ==
    /\ pc = "parsed"
    /\ result' = interp_node(program)
    /\ pc' = IF result' = Panic THEN "aborted" ELSE "done"
    /\ UNCHANGED <<source, chars, tokens, lexed, program, round, tree1, result1>>

Next == ReadSource \/ Lex \/ Parse \/ interpret

Spec == Init /\ [][Next]_vars

(***************************************************************************)
(* parse and interp_node over every token vector, followed by a second     *)
(* run of the pipeline on the Display rendering of the parsed tree.        *)
(***************************************************************************)
InitTokens ==
    /\ pc = "lexed"
    /\ tokens \in TokenVecs
    /\ lexed = tokens
    /\ source = <<>>
    /\ chars = <<>>
    /\ program = Null
    /\ result = Null
    /\ round = 1
    /\ tree1 = Null
    /\ result1 = Null

\* format!("{}", program): the rendered tree becomes the text of a second run
Render ==
    /\ pc \in {"done", "aborted"}
    /\ round = 1
    /\ tree1' = program
    /\ result1' = result
    /\ source' = Display(program)
    /\ round' = 2
    /\ pc' = "start"
    /\ chars' = <<>>
    /\ tokens' = <<>>
    /\ lexed' = <<>>
    /\ program' = Null
    /\ result' = Null

NextTokens == ReadSource \/ Lex \/ Parse \/ interpret \/ Render

SpecTokens == InitTokens /\ [][NextTokens]_vars

(***************************************************************************)
(* Reference notions the claims are stated with.                           *)
(***************************************************************************)
\* a tree of Number leaves and three-element lists (+ a b)
RECURSIVE IsPlusTree(_)
IsPlusTree(t) ==
    \/ t.tag = "Number"
    \/ /\ t.tag = "List"
       /\ Len(t.l) = 3
       /\ t.l[1] = Word(Plus)
       /\ IsPlusTree(t.l[2])
       /\ IsPlusTree(t.l[3])

\* the arithmetic sum of a tree of (+ a b) forms, following its nesting
RECURSIVE SumOf(_)
SumOf(t) == IF t.tag = "Number" THEN t.n ELSE SumOf(t.l[2]) + SumOf(t.l[3])

\* a program that is exactly one (+ a b) form
OnePlusForm ==
    /\ program.tag = "List"
    /\ Len(program.l) = 1
    /\ program.l[1].tag = "List"
    /\ IsPlusTree(program.l[1])

\* a text of whitespace and ';' line comments only
RECURSIVE Blank(_), BlankComment(_)
BlankComment(s) ==
    IF s = <<>> THEN TRUE
    ELSE IF Head(s) = "\n" THEN Blank(Tail(s)) ELSE BlankComment(Tail(s))

Blank(s) ==
    IF s = <<>> THEN TRUE
    ELSE IF is_whitespace(Head(s)) THEN Blank(Tail(s))
    ELSE IF Head(s) = ";" THEN BlankComment(Tail(s))
    ELSE FALSE

\* the tokens of a text in source order, by one left-to-right scan that
\* reads every character up to the end of the text
RECURSIVE RefTokens(_), RefComment(_), RefRun(_, _, _)
RefComment(s) ==
    IF s = <<>> THEN <<>>
    ELSE IF Head(s) = "\n" THEN RefTokens(Tail(s)) ELSE RefComment(Tail(s))

\* the run of digits (digits = TRUE) or of non-whitespace characters that
\* starts the text s, run holding its characters read so far
RefRun(s, digits, run) ==
    IF s # <<>> /\ (IF digits THEN is_numeric(Head(s)) ELSE ~is_whitespace(Head(s)))
    THEN RefRun(Tail(s), digits, Append(run, Head(s)))
    ELSE <<IF digits THEN TNumber(ParseI64(run)) ELSE TWord(run)>> \o RefTokens(s)

RefTokens(s) ==
    IF s = <<>> THEN <<>>
    ELSE CASE Head(s) = "(" -> <<LParen>> \o RefTokens(Tail(s))
           [] Head(s) = ")" -> <<RParen>> \o RefTokens(Tail(s))
           [] Head(s) = ";" -> RefComment(Tail(s))
           [] OTHER ->
                IF is_whitespace(Head(s)) THEN RefTokens(Tail(s))
                ELSE RefRun(s, is_numeric(Head(s)), <<>>)

\* a text that is one bare word other than "+"
IsBareWord(s) ==
    /\ s # <<>>
    /\ s # Plus
    /\ ~is_numeric(s[1])
    /\ \A i \in 1..Len(s) : ~is_whitespace(s[i]) /\ s[i] \notin {"(", ")", ";"}

\* no Null element at any depth of a List
RECURSIVE NoNull(_)
NoNull(node) ==
    \A i \in 1..Len(node.l) : node.l[i] # Null /\ NoNull(node.l[i])

\* the node itself and every node nested in it
RECURSIVE Subtrees(_)
Subtrees(node) == {node} \cup UNION {Subtrees(node.l[i]) : i \in 1..Len(node.l)}

IsPlusList(node) == node.tag = "List" /\ Len(node.l) >= 1 /\ node.l[1] = Word(Plus)

\* the lists interp_node(program) is certain to hand to interp_list: the
\* program itself and, when the program is a plain sequence, its first form
FirstEvaluated ==
    {program} \cup
    (IF Len(program.l) >= 1 /\ program.l[1].tag = "List" THEN {program.l[1]} ELSE {})

\* the tokens of the Vec lex returned, in source order
InOrder == Reverse(lexed)

\* scanning s from token i at nesting depth d: the index of the first
\* close-marker that has no matching open-marker, 0 when there is none
RECURSIVE FirstUnmatchedClose(_, _, _)
FirstUnmatchedClose(s, i, d) ==
    IF i > Len(s) THEN 0
    ELSE IF s[i] = LParen THEN FirstUnmatchedClose(s, i + 1, d + 1)
    ELSE IF s[i] = RParen
         THEN IF d = 0 THEN i ELSE FirstUnmatchedClose(s, i + 1, d - 1)
    ELSE FirstUnmatchedClose(s, i + 1, d)

\* the number of open-markers of s left without a matching close-marker
RECURSIVE UnmatchedOpens(_, _, _)
UnmatchedOpens(s, i, d) ==
    IF i > Len(s) THEN d
    ELSE IF s[i] = LParen THEN UnmatchedOpens(s, i + 1, d + 1)
    ELSE IF s[i] = RParen THEN UnmatchedOpens(s, i + 1, IF d = 0 THEN 0 ELSE d - 1)
    ELSE UnmatchedOpens(s, i + 1, d)

Closers(k) == [i \in 1..k |-> RParen]

\* parse applied to the source-order tokens s
ParseOf(s) == parse(Reverse(s))

(***************************************************************************)
(* The claims.                                                             *)
(***************************************************************************)
\* C1: for a program that is one form built only from Number leaves and
\* three-element lists (+ a b), interp_node of the form is the Number of the
\* arithmetic sum that follows the nesting, the run does not abort, and the
\* result of the program is the List holding exactly that Number.
C1_PlusFormsSum ==
    (pc \in {"parsed", "done", "aborted"} /\ OnePlusForm) =>
        /\ interp_node(program.l[1]) = Number(SumOf(program.l[1]))
        /\ pc # "aborted"
        /\ pc = "done" => result = List(<<Number(SumOf(program.l[1]))>>)

C1_Witness ==
    /\ pc = "done"
    /\ source = SrcNested
    /\ program.l[1].l[2].tag = "List"
    /\ result = List(<<Number(6)>>)

\* C2: for an input that is empty or holds only whitespace and ';' comments,
\* the run never aborts, lex returns no token, parse returns the empty List
\* and the result is the empty List.
C2_BlankInputGivesEmptyList ==
    (round = 1 /\ Blank(source)) =>
        /\ pc # "aborted"
        /\ pc \in {"lexed", "parsed", "done"} => lexed = <<>>
        /\ pc \in {"parsed", "done"} => program = List(<<>>)
        /\ pc = "done" => result = List(<<>>)

\* C3: on a text whose parentheses are surrounded by whitespace, lex returns
\* in source order one token per parenthesis and one Number or Word token
\* per run outside comments, each with the complete text of its run, up to
\* and including a run that ends at the end of the input.
C3_LexKeepsEveryRun ==
    pc = "lexed" => InOrder = RefTokens(chars)

\* C4: for a program that is one bare word other than "+", lex yields the
\* one token Word(word), parse yields List[Word(word)] and the result is the
\* empty List.
C4_BareWordGivesEmptyList ==
    (round = 1 /\ IsBareWord(source)) =>
        /\ pc # "aborted"
        /\ pc \in {"lexed", "parsed", "done"} => lexed = <<TWord(source)>>
        /\ pc \in {"parsed", "done"} => program = List(<<Word(source)>>)
        /\ pc = "done" => result = List(<<>>)

\* C5: whenever the evaluation of a parsed tree returns a List, that List
\* holds no Null at any nesting depth.
C5_NoNullInResult ==
    (pc = "done" /\ result.tag = "List") => NoNull(result)

C5_Witness ==
    /\ pc = "done"
    /\ round = 1
    /\ program = List(<<List(<<List(<<Word(<<"a">>)>>), Number(12)>>)>>)
    /\ result = List(<<List(<<Number(12)>>)>>)

\* C6: interp_list of a List headed by Word "+" with fewer than three
\* elements is a fatal failure and returns no Node, and the run aborts when
\* such a list is evaluated; with three or more elements the list's own
\* indexing does not fail (a failure comes from an operand only) and only
\* the second and third elements are read.
C6_ShortPlusIsFatal ==
    /\ \A t \in Subtrees(program) :
          IsPlusList(t) =>
              IF Len(t.l) < 3 THEN interp_list(t.l) = Panic
              ELSE /\ interp_list(t.l) = interp_list(SubSeq(t.l, 1, 3))
                   /\ interp_list(t.l) = Panic <=>
                          (interp_node(t.l[2]) = Panic \/ interp_node(t.l[3]) = Panic)
    /\ (pc \in {"done", "aborted"}
          /\ \E t \in FirstEvaluated : IsPlusList(t) /\ Len(t.l) < 3) =>
            (pc = "aborted" /\ result = Panic)

C6_Witness ==
    /\ pc = "aborted"
    /\ round = 1
    /\ program = List(<<List(<<Word(Plus), Number(12)>>)>>)
    /\ result = Panic

\* C7 as stated: evaluating the tree parsed back from the Display rendering
\* of a parsed List T yields the same result as evaluating T.
C7_RoundTripSameResult ==
    (round = 2 /\ pc \in {"done", "aborted"}) => result = result1

\* C7 as amended: the tree parsed back from the rendering of T is the
\* one-element List holding T, and its evaluation fails when that of T
\* fails, gives the empty List when T evaluates to Null and otherwise the
\* one-element List holding the result of T.
C7_RoundTripWrapsTree ==
    (round = 2 /\ pc \in {"parsed", "done", "aborted"}) =>
        /\ program = List(<<tree1>>)
        /\ tokens = <<>>
        /\ pc \in {"done", "aborted"} =>
              result = IF result1 = Panic THEN Panic
                       ELSE IF result1 = Null THEN List(<<>>)
                       ELSE List(<<result1>>)

C7_Witness ==
    /\ round = 2
    /\ pc = "done"
    /\ tree1 = List(<<List(<<Word(Plus), Number(12), Number(12)>>)>>)
    /\ result1 = List(<<Number(24)>>)
    /\ result = List(<<List(<<Number(24)>>)>>)

\* C8 as stated: the program (+ 1 2) (+ 3 4) evaluates to
\* List[Number(3), Number(4)].
C8_SiblingsGive3And4 ==
    (pc \in {"done", "aborted"} /\ source = SrcSiblings) =>
        (pc = "done" /\ result = List(<<Number(3), Number(4)>>))

\* C8 as amended: the program (+ 1 2) (+ 3 4) evaluates to
\* List[Number(3), Number(7)], one entry per top-level form in source order.
C8_SiblingsGive3And7 ==
    (pc \in {"done", "aborted"} /\ source = SrcSiblings) =>
        (pc = "done" /\ result = List(<<Number(3), Number(7)>>))

C8_Witness ==
    /\ pc = "done"
    /\ source = SrcSiblings
    /\ Len(program.l) = 2
    /\ Len(result.l) = 2

\* C9 as stated: for a token sequence with k >= 1 open-markers left
\* unmatched, parse returns the tree it returns for the sequence with k
\* close-markers appended, and drains the token sequence in both cases.
C9_UnclosedAsIfClosedDrained ==
    (round = 1 /\ pc = "parsed" /\ UnmatchedOpens(InOrder, 1, 0) >= 1) =>
        LET closed == ParseOf(InOrder \o Closers(UnmatchedOpens(InOrder, 1, 0)))
        IN  /\ program = closed.node
            /\ tokens = <<>>
            /\ closed.rest = <<>>

\* C9 as amended: for a token sequence with k >= 1 open-markers left
\* unmatched, parse returns the tree it returns for the sequence with k
\* close-markers appended; the token sequence is drained in both cases when
\* no close-marker of the sequence lacks a matching open-marker.
C9_UnclosedAsIfClosed ==
    (round = 1 /\ pc = "parsed" /\ UnmatchedOpens(InOrder, 1, 0) >= 1) =>
        LET closed == ParseOf(InOrder \o Closers(UnmatchedOpens(InOrder, 1, 0)))
        IN  /\ program = closed.node
            /\ FirstUnmatchedClose(InOrder, 1, 0) = 0 =>
                  (tokens = <<>> /\ closed.rest = <<>>)

C9_Witness ==
    /\ round = 1
    /\ pc = "parsed"
    /\ InOrder = <<LParen, TWord(Plus), LParen, TNumber(12)>>
    /\ program = List(<<List(<<Word(Plus), List(<<Number(12)>>)>>)>>)
    /\ tokens = <<>>

\* C10: when the top-level parse meets a close-marker without a matching
\* open-marker, it consumes it and returns the List of the forms before it;
\* the tokens after it stay unconsumed in the Vec, and the result is that of
\* the forms before it alone.
C10_StrayCloseEndsParse ==
    LET i == FirstUnmatchedClose(InOrder, 1, 0)
    IN  (pc \in {"parsed", "done", "aborted"} /\ program # Null /\ i > 0) =>
            /\ tokens = Reverse(SubSeq(InOrder, i + 1, Len(InOrder)))
            /\ program = ParseOf(SubSeq(InOrder, 1, i - 1)).node
            /\ pc \in {"done", "aborted"} =>
                  result = interp_node(ParseOf(SubSeq(InOrder, 1, i - 1)).node)

C10_Witness ==
    /\ pc = "done"
    /\ source = <<"1", ")", "1", " ">>
    /\ InOrder = <<TNumber(1), RParen, TNumber(1)>>
    /\ tokens = <<TNumber(1)>>
    /\ program = List(<<Number(1)>>)
    /\ result = List(<<Number(1)>>)

====
